---- MODULE Spec2Model ----
(***************************************************************************)
(* A model of the dashboard scripts of plotly_dash.  One operating-system  *)
(* process runs one script, so a behaviour of the model is the run of one  *)
(* script, chosen in Init:                                                 *)
(*   quake      test3.plotly(earthquake).py  load, snapshot, dashboard     *)
(*   fin        test4(...).py                load, clean, dashboard        *)
(*   sim        test.plotly.py               tunnel, dashboard             *)
(*   iris_main  app.py run as a script       module body, then __main__    *)
(*   iris_wsgi  app.py imported by gunicorn  module body only              *)
(* Once a script serves, its recompute callback is invoked any number of   *)
(* times with parameters drawn from small sets.                            *)
(*                                                                         *)
(* Numbers: a Magnitude is in tenths (55 is 5.5); a formatted mean is in   *)
(* hundredths; a Date of the financial table and a slider value are in     *)
(* seconds since the epoch; a decay is in tenths.                          *)
(***************************************************************************)
EXTENDS Integers, Sequences, FiniteSets, TLC

VARIABLES
    script,     \* which script this process runs
    pc,         \* position in the script's top-level code
    tz,         \* the host's UTC offset in seconds (read by Timestamp.fromtimestamp)
    tunnel,     \* the ngrok tunnel: untried, skipped, up or failed
    df,         \* the table the script holds (raw after a load, cleaned after cleaning)
    load,       \* what the load operation was given and what it answered
    reported,   \* the messages printed to the operator
    assembled,  \* the table as it was when the dashboard was assembled
    last,       \* the most recent callback invocation: arguments, locals, result
    memo,       \* an earlier callback invocation kept for comparison
    sess        \* per browser session: the callback invocation it has in flight

vars == <<script, pc, tz, tunnel, df, load, reported, assembled, last, memo, sess>>

(***************************************************************************)
(* Bounds of the model and the sets inputs are drawn from.                 *)
(***************************************************************************)
MaxRows == 3            \* rows of the earthquake CSV file
MaxFinRows == 2         \* rows of the financial CSV file
DetMaxRows == 1         \* rows of either file where invocations are compared

Ticks == 0..4                       \* earthquake timestamps, two to a year
Days == 0..2                        \* dates of the financial CSV, in days

Mags == {55, 72}                    \* earthquake magnitudes, in tenths
Values == {10, 30}                  \* index values of the financial CSV
MAs == {20}                         \* moving averages of the financial CSV
TZOffsets == {-18000, 0, 28800}     \* host UTC offsets: UTC-5, UTC, UTC+8
YInputs == {0, 20}                  \* numbers typed into y-min / y-max

\* Python's None, and a present value, as sequences of length 0 and 1.
None == <<>>
Some(v) == <<v>>
IsNone(x) == x = <<>>
Val(x) == x[1]

SeqsUpTo(S, n) == UNION {[1..k -> S] : k \in 0..n}
Range(s) == {s[i] : i \in 1..Len(s)}

RECURSIVE SumSeq(_)
SumSeq(s) == IF s = <<>> THEN 0 ELSE Head(s) + SumSeq(Tail(s))

MinOf(S) == CHOOSE m \in S : \A n \in S : m <= n
MaxOf(S) == CHOOSE m \in S : \A n \in S : m >= n

\* What a callable gives back: a value, or an exception that propagates.
Return(v) == [kind |-> "return", value |-> v]
Raise(e) == [kind |-> "raise", exc |-> e]

NoDf == [cols |-> {}, rows |-> <<>>]
NoLoad == [n |-> 0, res |-> "none", absent |-> FALSE, missing |-> {}, done |-> FALSE]
NoCall == [fn |-> "none"]

\* The browser sessions that may have an invocation in flight together, and
\* a session with none.
Sessions == {1, 2}
NoSession == [pc |-> "idle", args |-> <<>>, view |-> <<>>, ret |-> [kind |-> "none"],
              during |-> {}]

\* The values memo may take when the invocation call is made: with track,
\* call itself; otherwise the invocation already kept, which notes in
\* between that an invocation with other arguments came after it.
Remember(track, call) ==
    {IF memo.fn = "none" THEN memo
     ELSE [memo EXCEPT !.between = memo.between \/ call.args # memo.args]}
    \cup (IF track THEN {call} ELSE {})

\* DataFrame.sort_values(by=key) over a sequence of [k |-> key, r |-> row]:
\* the rows in non-decreasing key order, rows of equal key in their previous
\* order.
RECURSIVE InsertSorted(_, _)
InsertSorted(s, p) ==
    IF s = <<>> THEN <<p>>
    ELSE IF s[Len(s)].k <= p.k THEN Append(s, p)
    ELSE Append(InsertSorted(SubSeq(s, 1, Len(s) - 1), p), s[Len(s)])

RECURSIVE SortKeyed(_)
SortKeyed(s) ==
    IF s = <<>> THEN <<>>
    ELSE InsertSorted(SortKeyed(SubSeq(s, 1, Len(s) - 1)), s[Len(s)])

\* The rows left in the order they were given in.
sort_values_skipped(keyed) == [i \in 1..Len(keyed) |-> keyed[i].r]

sort_values(keyed) ==
    LET sorted == SortKeyed(keyed) IN [i \in 1..Len(sorted) |-> sorted[i].r]

\* f"{x:.2f}" of the quotient num/den of a value in tenths: the nearest
\* hundredth (a tie, possible only when den is a multiple of 4, rounds up here).
Format2f(num, den) == (20 * num + den) \div (2 * den)

(***************************************************************************)
(* The earthquake dashboard: test3.plotly(earthquake).py                   *)
(***************************************************************************)
QuakeCols == {"Date", "Latitude", "Longitude", "Magnitude"}

\* The float read_csv puts in the Magnitude column for an empty cell; no
\* magnitude of Mags is negative.
NaN == -1

\* A CSV row: its Date text parses to a timestamp (Some) or does not (None).
\* One more row has a date and no magnitude.
QuakeCsvRows ==
    [Date : {None} \cup {Some(t) : t \in Ticks}, Magnitude : Mags]
    \cup {[Date |-> Some(1), Magnitude |-> NaN]}

\* The files the loader may find: none, a complete one of up to n rows, one
\* without its Date or its Magnitude column.
QuakeFiles(n) ==
    {[exists |-> FALSE, cols |-> QuakeCols, rows |-> <<>>]}
    \cup {[exists |-> TRUE, cols |-> QuakeCols, rows |-> rs] :
            rs \in SeqsUpTo(QuakeCsvRows, n)}
    \cup {[exists |-> TRUE, cols |-> QuakeCols \ {c}, rows |-> rs] :
            c \in {"Date", "Magnitude"}, rs \in SeqsUpTo(QuakeCsvRows, 1)}

\* Series.dt.year
YearOf(t) == t \div 2

\* EarthquakeDataLoader.load_and_clean: read, parse Date with errors='coerce',
\* drop the rows whose Date did not parse, add Year, sort by Datetime.  (The
\* index labels the rows keep are unique and are read only by idxmax/loc,
\* which MaxQuake models by position; the rows carry none here.)
load_and_clean(file) ==
    IF ~file.exists THEN Raise("FileNotFoundError")
    ELSE IF "Date" \notin file.cols THEN Raise("RuntimeError")
    ELSE
        LET n == Len(file.rows)
            parsed == [i \in 1..n |->
                          [Datetime |-> file.rows[i].Date,
                           Magnitude |-> file.rows[i].Magnitude]]
            kept == SelectSeq(parsed, LAMBDA r : ~IsNone(r.Datetime))
            typed == [i \in 1..Len(kept) |->
                          [Datetime |-> Val(kept[i].Datetime),
                           Year |-> YearOf(Val(kept[i].Datetime)),
                           Magnitude |-> kept[i].Magnitude]]
        IN  Return([cols |-> file.cols \cup {"Datetime", "Year"},
                    rows |-> sort_values([i \in 1..Len(typed) |->
                                  [k |-> typed[i].Datetime, r |-> typed[i]]])])

Magnitudes(rows) == [i \in 1..Len(rows) |-> rows[i].Magnitude]
Years(rows) == {rows[i].Year : i \in 1..Len(rows)}

\* The strongest quake looked up in the whole table, whatever rows are given.
MaxQuake_of_table(rows) ==
    LET m == MaxOf(Range(Magnitudes(df.rows)))
        i == MinOf({j \in 1..Len(df.rows) : df.rows[j].Magnitude = m})
    IN  df.rows[i]

\* df.loc[df['Magnitude'].idxmax()]: the first row holding the maximum.
MaxQuake(rows) ==
    LET m == MaxOf(Range(Magnitudes(rows)))
        i == MinOf({j \in 1..Len(rows) : rows[j].Magnitude = m})
    IN  rows[i]

\* ChartFactory.create_global_map: one scatter trace of the rows, the year
\* span in the title, the strongest quake in an annotation.  idxmax raises
\* on an empty column, and the marker size of scatter_map admits no NaN.
create_global_map(d) ==
    IF "Magnitude" \notin d.cols THEN Raise("KeyError")
    ELSE IF d.rows = <<>> THEN Raise("ValueError")
    ELSE IF NaN \in Range(Magnitudes(d.rows)) THEN Raise("ValueError")
    ELSE Return([traces |-> <<[type |-> "scattermap", points |-> d.rows]>>,
                 title |-> <<MinOf(Years(d.rows)), MaxOf(Years(d.rows))>>,
                 annotation |-> [Magnitude |-> MaxQuake(d.rows).Magnitude,
                                 Year |-> MaxQuake(d.rows).Year]])

\* The histogram drawn over the whole table whatever table it is handed.
create_magnitude_hist_of_table(d) ==
    Return([traces |-> <<[type |-> "histogram", x |-> Magnitudes(df.rows)]>>,
            vline |-> <<SumSeq(Magnitudes(df.rows)), Len(df.rows)>>,
            annotation |-> Format2f(SumSeq(Magnitudes(df.rows)), Len(df.rows))])

\* ChartFactory.create_magnitude_hist: one histogram trace, a line at the mean.
create_magnitude_hist(d) ==
    Return([traces |-> <<[type |-> "histogram", x |-> Magnitudes(d.rows)]>>,
            vline |-> <<SumSeq(Magnitudes(d.rows)), Len(d.rows)>>,
            annotation |-> Format2f(SumSeq(Magnitudes(d.rows)), Len(d.rows))])

\* The figure {} of the empty branch: no traces.
EmptyFigure == [traces |-> <<>>]
NoDataNotice == "no data in the selected range"

\* The year filter with its upper bound exclusive.
year_mask_exclusive(r, year_range) == r.Year >= year_range[1] /\ r.Year < year_range[2]

\* (df['Year'] >= year_range[0]) & (df['Year'] <= year_range[1])
year_mask(r, year_range) == r.Year >= year_range[1] /\ r.Year <= year_range[2]

\* A selection that narrows the table in place.
table_narrowed_in_place(d, selected) == [d EXCEPT !.rows = selected]

\* df[mask] and df.loc[mask] build a new table: the table d they select
\* from is what it was.
table_after_selection(d, selected) == d

\* The stats card of update_charts.
stats_info(rows) ==
    [count |-> Len(rows),
     max |-> MaxOf(Range(Magnitudes(rows))),
     mean |-> Format2f(SumSeq(Magnitudes(rows)), Len(rows))]

\* update_charts after its filter: the three outputs for filtered_df, the
\* "no data" ones when it is empty.
render_charts(fd) ==
    IF fd.rows = <<>>
    THEN Return([map |-> EmptyFigure, hist |-> EmptyFigure,
                 stats |-> [notice |-> NoDataNotice]])
    ELSE Return([map |-> create_global_map(fd).value,
                 hist |-> create_magnitude_hist(fd).value,
                 stats |-> stats_info(fd.rows)])

\* update_charts holding on to the year range of its previous invocation.
update_charts_stale(d, year_range) ==
    LET used == IF last.fn = "update_charts" /\ ~IsNone(last.args[1])
                THEN last.args[1] ELSE year_range
    IN  IF IsNone(used)
        THEN [ret |-> Raise("TypeError"), view |-> <<>>, df |-> d]
        ELSE LET filtered == SelectSeq(d.rows, LAMBDA r : year_mask(r, used))
             IN  [ret |-> render_charts([cols |-> d.cols, rows |-> filtered]),
                  view |-> filtered, df |-> d]

\* update_charts(year_range) over the table d.  ret is what the callback
\* gives back, view its filtered_df (empty when it never got that far), df
\* the table after the call.
update_charts(d, year_range) ==
    IF IsNone(year_range)
    THEN [ret |-> Raise("TypeError"), view |-> <<>>, df |-> d]
    ELSE
        LET filtered == SelectSeq(d.rows, LAMBDA r : year_mask(r, year_range))
        IN  [ret |-> render_charts([cols |-> d.cols, rows |-> filtered]),
             view |-> filtered, df |-> table_after_selection(d, filtered)]

\* Values the year slider can deliver: None, and any pair of years.
YearInputs ==
    LET years == {YearOf(t) : t \in Ticks} IN {None} \cup (years \X years)

\* launch_dashboard up to app.run: the slider's extent is read from the table.
launch_dashboard(d) ==
    IF "Year" \notin d.cols THEN Raise("KeyError")
    ELSE IF d.rows = <<>> THEN Raise("ValueError")
    ELSE Return([min_year |-> MinOf(Years(d.rows)), max_year |-> MaxOf(Years(d.rows))])

\* A handler that prints the failure and lets the script go on.
quake_main_swallow(r, next) ==
    IF r.kind = "return"
    THEN [pc |-> next, reported |-> reported]
    ELSE [pc |-> next,
          reported |-> Append(reported, [handler |-> "Exception", exc |-> r.exc])]

\* __main__ of the earthquake script: every step runs inside one try whose
\* handler prints the failure and lets the script end.
quake_main_try(r, next) ==
    IF r.kind = "return"
    THEN [pc |-> next, reported |-> reported]
    ELSE [pc |-> "failed",
          reported |-> Append(reported, [handler |-> "Exception", exc |-> r.exc])]

\* The columns the earthquake pipeline reads.
QuakeRequired == {"Date", "Magnitude", "Latitude", "Longitude"}

QuakeLoad(n) ==
    /\ script = "quake" /\ pc = "start"
    /\ \E file \in QuakeFiles(n) :
         \E r \in {load_and_clean(file)} :
         LET t == quake_main_try(r, "loaded")
         IN  /\ df' = IF r.kind = "return" THEN r.value ELSE df
             /\ load' = [n |-> load.n + 1,
                         res |-> IF r.kind = "return" THEN "ok" ELSE r.exc,
                         absent |-> ~file.exists,
                         missing |-> QuakeRequired \ file.cols,
                         done |-> TRUE]
             /\ pc' = t.pc
             /\ reported' = t.reported
    /\ UNCHANGED <<sess, script, tunnel, tz, assembled, last, memo>>

\* The static snapshot: create_global_map(df_clean), then write_html.
QuakeSnapshot ==
    /\ script = "quake" /\ pc = "loaded"
    /\ LET t == quake_main_try(create_global_map(df), "snapshot")
       IN  pc' = t.pc /\ reported' = t.reported
    /\ UNCHANGED <<sess, script, tunnel, tz, df, load, assembled, last, memo>>

\* launch_dashboard(df_clean): layout, callback registration, app.run.
QuakeLaunch ==
    /\ script = "quake" /\ pc = "snapshot"
    /\ LET t == quake_main_try(launch_dashboard(df), "serving")
       IN  pc' = t.pc /\ reported' = t.reported
    /\ assembled' = df
    /\ UNCHANGED <<sess, script, tunnel, tz, df, load, last, memo>>

\* One invocation of update_charts by the presentation layer.  With track,
\* the invocation may be the one kept in memo.
CallUpdateCharts(track) ==
    /\ script = "quake" /\ pc = "serving"
    /\ \E year_range \in YearInputs :
         \E r \in {update_charts(df, year_range)} :
         LET call == [fn |-> "update_charts", args |-> <<year_range>>, ret |-> r.ret,
                     between |-> FALSE]
         IN  /\ last' = [fn |-> "update_charts", args |-> <<year_range>>,
                         ret |-> r.ret, view |-> r.view]
             /\ df' = r.df
             /\ memo' \in Remember(track, call)
    /\ UNCHANGED <<sess, script, tunnel, pc, tz, load, reported, assembled>>

(***************************************************************************)
(* The financial dashboard: test4(...).py                                  *)
(***************************************************************************)
SecondsPerDay == 86400

\* A CSV row.  Its first cell is a date (ok), empty (nat) or text that is no
\* date (bad); its second and third cells are numbers (Some) or not (None).
\* A row has at most one defect.  Two more rows hold an index and a moving
\* average that are both zero, and both below zero.
FinCsvRows ==
    {[Date |-> [k |-> "ok", d |-> d], Value |-> Some(v), MA |-> Some(m)] :
        d \in Days, v \in Values, m \in MAs}
    \cup {[Date |-> [k |-> "ok", d |-> 0], Value |-> Some(v), MA |-> Some(v)] :
            v \in {-10, 0}}
    \cup {[Date |-> [k |-> c, d |-> 0], Value |-> Some(10), MA |-> Some(20)] :
            c \in {"nat", "bad"}}
    \cup {[Date |-> [k |-> "ok", d |-> 1], Value |-> None, MA |-> Some(20)],
          [Date |-> [k |-> "ok", d |-> 1], Value |-> Some(30), MA |-> None]}

\* The files load_and_process_data may find: none, an empty one, one of three
\* columns and up to n rows, one of two columns.
FinFiles(n) ==
    {[exists |-> FALSE, ncols |-> 0, rows |-> <<>>],
     [exists |-> TRUE, ncols |-> 0, rows |-> <<>>]}
    \cup {[exists |-> TRUE, ncols |-> 3, rows |-> rs] : rs \in SeqsUpTo(FinCsvRows, n)}
    \cup {[exists |-> TRUE, ncols |-> 2, rows |-> rs] : rs \in SeqsUpTo(FinCsvRows, 1)}

FinColNames == <<"Date", "Value", "MA">>

\* load_and_process_data: the existence test, then read_csv (which raises on
\* a file with no header).  The raw table names its columns by position.
load_and_process_data(file) ==
    IF ~file.exists THEN Raise("FileNotFoundError")
    ELSE IF file.ncols = 0 THEN Raise("EmptyDataError")
    ELSE Return([cols |-> {FinColNames[i] : i \in 1..file.ncols}, rows |-> file.rows])

\* pd.Timestamp of day d, as seconds since the epoch.
DateOf(d) == d * SecondsPerDay

\* clean_data: fewer than three columns is an error; to_datetime raises on a
\* cell that is no date; to_numeric coerces; dropna; the two bound columns;
\* sort by Date; reset_index (idx is the new 0..n-1 index).
clean_data(raw) ==
    IF Cardinality(raw.cols) < 3 THEN Raise("ValueError")
    ELSE IF \E i \in 1..Len(raw.rows) : raw.rows[i].Date.k = "bad" THEN Raise("ValueError")
    ELSE
        LET kept == SelectSeq(raw.rows, LAMBDA r :
                        r.Date.k = "ok" /\ ~IsNone(r.Value) /\ ~IsNone(r.MA))
            typed == [i \in 1..Len(kept) |->
                        [Date |-> DateOf(kept[i].Date.d),
                         Value |-> Val(kept[i].Value),
                         MA |-> Val(kept[i].MA),
                         Upper_Bound |-> MaxOf({Val(kept[i].Value), Val(kept[i].MA)}),
                         Lower_Bound |-> MinOf({Val(kept[i].Value), Val(kept[i].MA)})]]
            sorted == sort_values([i \in 1..Len(typed) |-> [k |-> typed[i].Date, r |-> typed[i]]])
        IN  Return([cols |-> raw.cols \cup {"Upper_Bound", "Lower_Bound"},
                    rows |-> [i \in 1..Len(sorted) |->
                                [idx |-> i - 1,
                                 Date |-> sorted[i].Date,
                                 Value |-> sorted[i].Value,
                                 MA |-> sorted[i].MA,
                                 Upper_Bound |-> sorted[i].Upper_Bound,
                                 Lower_Bound |-> sorted[i].Lower_Bound]]])

Column(rows, c) == [i \in 1..Len(rows) |-> rows[i][c]]

\* One go.Scatter trace of create_financial_chart.
Scatter(rows, c) == [type |-> "scatter", column |-> c,
                     x |-> Column(rows, "Date"), y |-> Column(rows, c)]

\* create_financial_chart(df, y_range): five traces whatever the table
\* holds; yaxis_range is set only for a pair in increasing order.
create_financial_chart(d, y_range) ==
    Return([traces |-> <<Scatter(d.rows, "MA"), Scatter(d.rows, "Upper_Bound"),
                         Scatter(d.rows, "MA"), Scatter(d.rows, "Lower_Bound"),
                         Scatter(d.rows, "Value")>>,
            yaxis_range |-> IF ~IsNone(y_range) /\ Len(y_range) = 2 /\ y_range[1] < y_range[2]
                            THEN y_range ELSE None])

\* int(x * 9 / 10) and int(x * 11 / 10): int() truncates toward zero.
Trunc(num, den) == IF num >= 0 THEN num \div den ELSE -((-num) \div den)

\* create_app(df) of the financial script up to the layout: the defaults of
\* the y inputs and of the date slider.  min() of an empty column is NaN and
\* int(NaN) raises.
fin_create_app(d) ==
    IF d.rows = <<>> THEN Raise("ValueError")
    ELSE
        LET vals == Range(Column(d.rows, "Value")) \cup Range(Column(d.rows, "MA"))
            dates == Range(Column(d.rows, "Date"))
        IN  Return([y_min |-> Trunc(MinOf(vals) * 9, 10),
                    y_max |-> Trunc(MaxOf(vals) * 11, 10),
                    date_slider |-> <<MinOf(dates), MaxOf(dates)>>])

\* pd.Timestamp.fromtimestamp(ts): the host's local wall-clock time of ts.
fromtimestamp(ts, z) == ts + z

\* (df['Date'] >= start_date) & (df['Date'] <= end_date)
date_mask(r, start_date, end_date) == r.Date >= start_date /\ r.Date <= end_date

\* The validation without its tests for None, None counting as 0.
validate_y_none_as_zero(y_min, y_max) ==
    LET lo == IF IsNone(y_min) THEN 0 ELSE Val(y_min)
        hi == IF IsNone(y_max) THEN 0 ELSE Val(y_max)
    IN  IF lo < hi THEN <<lo, hi>> ELSE None

\* The validation of the y inputs in update_chart.
validate_y(y_min, y_max) ==
    IF ~IsNone(y_min) /\ ~IsNone(y_max) /\ Val(y_min) < Val(y_max)
    THEN <<Val(y_min), Val(y_max)>>
    ELSE None

\* update_chart(date_range_timestamps, y_min, y_max) over the table d on a
\* host of UTC offset z.
update_chart(d, z, date_range_timestamps, y_min, y_max) ==
    IF IsNone(date_range_timestamps)
    THEN [ret |-> Raise("TypeError"), view |-> <<>>, start_date |-> 0, end_date |-> 0,
          y_range |-> None, df |-> d]
    ELSE
        LET start_date == fromtimestamp(date_range_timestamps[1], z)
            end_date == fromtimestamp(date_range_timestamps[2], z)
            df_filtered == SelectSeq(d.rows, LAMBDA r : date_mask(r, start_date, end_date))
            y_range == validate_y(y_min, y_max)
        IN  [ret |-> create_financial_chart([cols |-> d.cols, rows |-> df_filtered], y_range),
             view |-> df_filtered, start_date |-> start_date, end_date |-> end_date,
             y_range |-> y_range, df |-> table_after_selection(d, df_filtered)]

\* Values the date slider can deliver: None, and any pair of day boundaries
\* among the given days.  Values of one y input: None or a number.
DateInputs(days) == {None} \cup ({DateOf(d) : d \in days} \X {DateOf(d) : d \in days})
YInput == {None} \cup {Some(y) : y \in YInputs}

\* __main__ of the financial script: one try around every step, a handler
\* for FileNotFoundError and one for every other exception; both print.
fin_main_try(r, next) ==
    IF r.kind = "return"
    THEN [pc |-> next, reported |-> reported]
    ELSE [pc |-> "failed",
          reported |-> Append(reported,
                         [handler |-> IF r.exc = "FileNotFoundError"
                                      THEN "FileNotFoundError" ELSE "Exception",
                          exc |-> r.exc])]

FinLoad(n) ==
    /\ script = "fin" /\ pc = "start"
    /\ \E file \in FinFiles(n) :
         \E r \in {load_and_process_data(file)} :
         LET t == fin_main_try(r, "loaded")
         IN  /\ df' = IF r.kind = "return" THEN r.value ELSE df
             /\ load' = [n |-> load.n + 1,
                         res |-> IF r.kind = "return" THEN "ok" ELSE r.exc,
                         absent |-> ~file.exists,
                         missing |-> {FinColNames[i] : i \in (file.ncols + 1)..3},
                         done |-> r.kind = "raise"]
             /\ pc' = t.pc
             /\ reported' = t.reported
    /\ UNCHANGED <<sess, script, tunnel, tz, assembled, last, memo>>

FinClean ==
    /\ script = "fin" /\ pc = "loaded"
    /\ \E r \in {clean_data(df)} :
       LET t == fin_main_try(r, "cleaned")
       IN  /\ df' = IF r.kind = "return" THEN r.value ELSE df
           /\ load' = [load EXCEPT !.res = IF r.kind = "return" THEN "ok" ELSE r.exc,
                                   !.done = TRUE]
           /\ pc' = t.pc
           /\ reported' = t.reported
    /\ UNCHANGED <<sess, script, tunnel, tz, assembled, last, memo>>

\* create_app(clean_df), then app.run.
FinLaunch ==
    /\ script = "fin" /\ pc = "cleaned"
    /\ LET t == fin_main_try(fin_create_app(df), "serving")
       IN  pc' = t.pc /\ reported' = t.reported
    /\ assembled' = df
    /\ UNCHANGED <<sess, script, tunnel, tz, df, load, last, memo>>

\* One invocation of update_chart by the presentation layer.
CallUpdateChart(track, days, ys) ==
    /\ script = "fin" /\ pc = "serving"
    /\ \E drt \in DateInputs(days), y_min \in ys, y_max \in ys :
         \E r \in {update_chart(df, tz, drt, y_min, y_max)} :
         LET call == [fn |-> "update_chart", args |-> <<drt, y_min, y_max>>, ret |-> r.ret,
                     between |-> FALSE]
         IN  /\ last' = [fn |-> "update_chart", args |-> <<drt, y_min, y_max>>,
                         ret |-> r.ret, view |-> r.view,
                         start_date |-> r.start_date, end_date |-> r.end_date,
                         y_range |-> r.y_range]
             /\ df' = r.df
             /\ memo' \in Remember(track, call)
    /\ UNCHANGED <<sess, script, tunnel, pc, tz, load, reported, assembled>>

(***************************************************************************)
(* The simulation dashboard: test.plotly.py                                *)
(***************************************************************************)
NumSamples == 500
DomainEnd == 10
Port == 8050

Amplitudes == {None, Some(1), Some(5)}
Frequencies == {None, Some(10)}
Decays == {None, Some(0), Some(2)}      \* in tenths

\* The generator sampling with endpoint=False: the i-th sample is 10*(i-1)/500.
generate_simulation_data_open(amplitude, frequency, decay) ==
    IF IsNone(amplitude) \/ IsNone(frequency) \/ IsNone(decay)
    THEN Raise("TypeError")
    ELSE Return([i \in 1..NumSamples |->
                    [t |-> <<DomainEnd * (i - 1), NumSamples>>,
                     y |-> [amplitude |-> Val(amplitude),
                            exp_arg |-> -(Val(decay) * DomainEnd * (i - 1)),
                            cos_arg |-> Val(frequency) * DomainEnd * (i - 1)]]])

\* generate_simulation_data: t = np.linspace(0, 10, 500), the i-th sample
\* being 10*(i-1)/499, held as <<numerator, denominator>>; y = amplitude *
\* exp(-decay*t) * cos(frequency*t), held as the amplitude and the two
\* arguments over the denominators 10*499 and 499.  Arithmetic on None raises.
generate_simulation_data(amplitude, frequency, decay) ==
    IF IsNone(amplitude) \/ IsNone(frequency) \/ IsNone(decay)
    THEN Raise("TypeError")
    ELSE Return([i \in 1..NumSamples |->
                    [t |-> <<DomainEnd * (i - 1), NumSamples - 1>>,
                     y |-> [amplitude |-> Val(amplitude),
                            exp_arg |-> -(Val(decay) * DomainEnd * (i - 1)),
                            cos_arg |-> Val(frequency) * DomainEnd * (i - 1)]]])

\* update_graph answering from the figure it built last, whatever the
\* parameters it was built for.
update_graph_cached(amp, freq, decay) ==
    IF last.fn = "update_graph" /\ last.ret.kind = "return" THEN last.ret
    ELSE
        LET data == generate_simulation_data(amp, freq, decay)
        IN  IF data.kind = "raise" THEN data
            ELSE Return([traces |-> <<[type |-> "scatter",
                                       x |-> [i \in 1..NumSamples |-> data.value[i].t],
                                       y |-> [i \in 1..NumSamples |-> data.value[i].y]]>>])

\* The figure of update_graph: one scatter trace of the samples.
simulation_figure(samples) ==
    Return([traces |-> <<[type |-> "scatter",
                          x |-> [i \in 1..Len(samples) |-> samples[i].t],
                          y |-> [i \in 1..Len(samples) |-> samples[i].y]]>>])

\* update_graph(amp, freq, decay).
update_graph(amp, freq, decay) ==
    LET data == generate_simulation_data(amp, freq, decay)
    IN  IF data.kind = "raise" THEN data ELSE simulation_figure(data.value)

\* The tunnel set up with a handler that passes the failure over in silence.
tunnel_try_silent(skip, raises) ==
    IF skip THEN [tunnel |-> "skipped", reported |-> reported]
    ELSE IF raises THEN [tunnel |-> "failed", reported |-> reported]
    ELSE [tunnel |-> "up", reported |-> reported]

\* The launch configuration: unless WERKZEUG_RUN_MAIN is "true", ngrok.kill
\* and ngrok.connect(8050) inside a try whose handler prints and goes on.
tunnel_try(skip, raises) ==
    IF skip THEN [tunnel |-> "skipped", reported |-> reported]
    ELSE IF raises
    THEN [tunnel |-> "failed",
          reported |-> Append(reported, [handler |-> "Exception", exc |-> "NgrokError"])]
    ELSE [tunnel |-> "up", reported |-> reported]

SimTunnel ==
    /\ script = "sim" /\ pc = "start"
    /\ \E werkzeug_run_main \in BOOLEAN, raises \in BOOLEAN :
         LET t == tunnel_try(werkzeug_run_main, raises)
         IN  tunnel' = t.tunnel /\ reported' = t.reported
    /\ pc' = "configured"
    /\ UNCHANGED <<sess, script, tz, df, load, assembled, last, memo>>

\* The layout, the callback registration and app.run(port=8050).
SimRun ==
    /\ script = "sim" /\ pc = "configured"
    /\ pc' = "serving"
    /\ assembled' = df
    /\ UNCHANGED <<sess, script, tunnel, tz, df, load, reported, last, memo>>

\* One invocation of update_graph by the presentation layer.
CallUpdateGraph(track) ==
    /\ script = "sim" /\ pc = "serving"
    /\ \E amp \in Amplitudes, freq \in Frequencies, decay \in Decays :
         \E r \in {update_graph(amp, freq, decay)} :
         LET call == [fn |-> "update_graph", args |-> <<amp, freq, decay>>, ret |-> r,
                     between |-> FALSE]
         IN  /\ last' = [fn |-> "update_graph", args |-> <<amp, freq, decay>>,
                         ret |-> r, view |-> <<>>]
             /\ memo' \in Remember(track, call)
    /\ UNCHANGED <<sess, script, tunnel, pc, tz, df, load, reported, assembled>>

(***************************************************************************)
(* The iris product: app.py                                                *)
(***************************************************************************)
IrisRequired == {"SepalLength", "SepalWidth", "PetalLength", "PetalWidth", "Name"}

\* The files DataManager may find: none, one read_csv cannot parse, one
\* without a required column, a complete one.  The rows are the species names.
IrisFiles ==
    {[exists |-> FALSE, parses |-> FALSE, cols |-> {}, rows |-> <<>>],
     [exists |-> TRUE, parses |-> FALSE, cols |-> {}, rows |-> <<>>],
     [exists |-> TRUE, parses |-> TRUE, cols |-> IrisRequired \ {"PetalWidth"},
      rows |-> <<"Iris-setosa">>],
     [exists |-> TRUE, parses |-> TRUE, cols |-> IrisRequired,
      rows |-> <<"Iris-setosa", "Iris-virginica">>]}

\* DataManager._load_data: the existence test outside the try; inside it,
\* read_csv and the required-column test, every failure re-raised as
\* RuntimeError.
DataManager_load_data(file) ==
    IF ~file.exists THEN Raise("FileNotFoundError")
    ELSE IF ~file.parses THEN Raise("RuntimeError")
    ELSE IF ~(IrisRequired \subseteq file.cols) THEN Raise("RuntimeError")
    ELSE Return([cols |-> file.cols, rows |-> file.rows])

\* An exception no handler catches: the interpreter prints the traceback
\* and the process ends.
uncaught(r, next) ==
    IF r.kind = "return"
    THEN [pc |-> next, reported |-> reported]
    ELSE [pc |-> "failed",
          reported |-> Append(reported, [handler |-> "traceback", exc |-> r.exc])]

\* The module body: server = create_app(), that is DataManager(DATA_PATH),
\* build_scatter_matrix, launch_product, app.server.
IrisImport ==
    /\ script \in {"iris_main", "iris_wsgi"} /\ pc = "start"
    /\ \E file \in IrisFiles :
         \E r \in {DataManager_load_data(file)} :
         LET t == uncaught(r, "imported")
         IN  /\ df' = IF r.kind = "return" THEN r.value ELSE df
             /\ assembled' = IF r.kind = "return" THEN r.value ELSE assembled
             /\ load' = [n |-> load.n + 1,
                         res |-> IF r.kind = "return" THEN "ok" ELSE r.exc,
                         absent |-> ~file.exists,
                         missing |-> IF file.parses THEN IrisRequired \ file.cols ELSE {},
                         done |-> TRUE]
             /\ pc' = t.pc
             /\ reported' = t.reported
    /\ UNCHANGED <<sess, script, tunnel, tz, last, memo>>

\* gunicorn serves the module's server object.
IrisServe ==
    /\ script = "iris_wsgi" /\ pc = "imported"
    /\ pc' = "serving"
    /\ UNCHANGED <<sess, script, tunnel, tz, df, load, reported, assembled, last, memo>>

\* __main__, step 1: ngrok.kill and ngrok.connect(8050) inside a try.
IrisTunnel ==
    /\ script = "iris_main" /\ pc = "imported"
    /\ \E raises \in BOOLEAN :
         LET t == tunnel_try(FALSE, raises)
         IN  tunnel' = t.tunnel /\ reported' = t.reported
    /\ pc' = "tunnel_done"
    /\ UNCHANGED <<sess, script, tz, df, load, assembled, last, memo>>

\* __main__, steps 2 and 3: DataManager(DATA_PATH) once more, then the
\* figure and its export.
IrisMainLoad ==
    /\ script = "iris_main" /\ pc = "tunnel_done"
    /\ \E file \in IrisFiles :
         \E r \in {DataManager_load_data(file)} :
         LET t == uncaught(r, "main_loaded")
         IN  /\ df' = IF r.kind = "return" THEN r.value ELSE df
             /\ load' = [n |-> load.n + 1,
                         res |-> IF r.kind = "return" THEN "ok" ELSE r.exc,
                         absent |-> ~file.exists,
                         missing |-> IF file.parses THEN IrisRequired \ file.cols ELSE {},
                         done |-> TRUE]
             /\ pc' = t.pc
             /\ reported' = t.reported
    /\ UNCHANGED <<sess, script, tunnel, tz, assembled, last, memo>>

\* __main__, step 4: launch_product and app.run(port=8050).
IrisRun ==
    /\ script = "iris_main" /\ pc = "main_loaded"
    /\ pc' = "serving"
    /\ assembled' = df
    /\ UNCHANGED <<sess, script, tunnel, tz, df, load, reported, last, memo>>

(***************************************************************************)
(* Browser sessions.  The server answers each callback request in a thread *)
(* of its own, so the invocations of several sessions interleave: one      *)
(* receives its parameters, filters (or samples), then builds its result.  *)
(***************************************************************************)
\* The parameters a session's event carries, by script.
SessionInputs(days, ys) ==
    IF script = "quake" THEN {<<yr>> : yr \in YearInputs}
    ELSE IF script = "fin"
    THEN {<<drt, y_min, y_max>> : drt \in DateInputs(days), y_min \in ys, y_max \in ys}
    ELSE {<<amp, freq, decay>> : amp \in Amplitudes, freq \in Frequencies, decay \in Decays}

\* The first half of a callback with the parameters a: filtered_df of
\* update_charts and update_chart, the samples of update_graph; a null
\* parameter raises there.
session_filter(a) ==
    IF script = "quake"
    THEN IF IsNone(a[1]) THEN [raised |-> TRUE, view |-> <<>>]
         ELSE [raised |-> FALSE, view |-> update_charts(df, a[1]).view]
    ELSE IF script = "fin"
    THEN IF IsNone(a[1]) THEN [raised |-> TRUE, view |-> <<>>]
         ELSE [raised |-> FALSE, view |-> update_chart(df, tz, a[1], a[2], a[3]).view]
    ELSE LET data == generate_simulation_data(a[1], a[2], a[3])
         IN  IF data.kind = "raise" THEN [raised |-> TRUE, view |-> <<>>]
             ELSE [raised |-> FALSE, view |-> data.value]

\* filtered_df kept in one variable of the module: what a session reads is
\* the view of whichever session has filtered.
shared_view(s) == sess[CHOOSE o \in Sessions : sess[o].pc = "filtered"].view

\* filtered_df (t, y in update_graph) is a local of the invocation: the
\* frame of session s holds the view s computed.
session_view(s) == sess[s].view

\* The second half of a callback: its result, built from the local view.
session_build(s) ==
    LET a == sess[s].args
    IN  IF script = "quake"
        THEN render_charts([cols |-> df.cols, rows |-> session_view(s)])
        ELSE IF script = "fin"
        THEN create_financial_chart([cols |-> df.cols, rows |-> session_view(s)],
                                    validate_y(a[2], a[3]))
        ELSE simulation_figure(session_view(s))

\* A parameter change in session s reaches the server.
SessBegin(s, days, ys) ==
    /\ script \in {"quake", "fin", "sim"} /\ pc = "serving"
    /\ sess[s].pc \in {"idle", "done"}
    /\ \E a \in SessionInputs(days, ys) :
         sess' = [sess EXCEPT ![s] = [NoSession EXCEPT !.pc = "called", !.args = a]]
    /\ UNCHANGED <<script, pc, tz, tunnel, df, load, reported, assembled, last, memo>>

SessFilter(s) ==
    /\ sess[s].pc = "called"
    /\ \E f \in {session_filter(sess[s].args)} :
         /\ sess' = [sess EXCEPT ![s] =
                        IF f.raised
                        THEN [@ EXCEPT !.pc = "done", !.ret = Raise("TypeError")]
                        ELSE [@ EXCEPT !.pc = "filtered", !.view = f.view]]
         /\ df' = IF f.raised \/ script = "sim" THEN df
                  ELSE table_after_selection(df, f.view)
    /\ UNCHANGED <<script, pc, tz, tunnel, load, reported, assembled, last, memo>>

\* The invocation of session s returns; during notes the sessions that had
\* an invocation in flight at that moment.
SessBuild(s) ==
    /\ sess[s].pc = "filtered"
    /\ sess' = [sess EXCEPT ![s] =
                   [@ EXCEPT !.pc = "done", !.ret = session_build(s),
                             !.during = {o \in Sessions \ {s} :
                                            sess[o].pc \in {"called", "filtered"}}]]
    /\ UNCHANGED <<script, pc, tz, tunnel, df, load, reported, assembled, last, memo>>

(***************************************************************************)
(* The specifications                                                      *)
(***************************************************************************)
Scripts == {"quake", "fin", "sim", "iris_main", "iris_wsgi"}

Init ==
    /\ script \in Scripts
    /\ pc = "start"
    /\ tz \in (IF script = "fin" THEN TZOffsets ELSE {0})
    /\ tunnel = "untried"
    /\ df = NoDf
    /\ load = NoLoad
    /\ reported = <<>>
    /\ assembled = NoDf
    /\ last = NoCall
    /\ memo = NoCall
    /\ sess = [s \in Sessions |-> NoSession]

Startup ==
    \/ QuakeSnapshot
    \/ QuakeLaunch
    \/ FinClean
    \/ FinLaunch
    \/ SimTunnel
    \/ SimRun
    \/ IrisImport
    \/ IrisServe
    \/ IrisTunnel
    \/ IrisMainLoad
    \/ IrisRun

Next ==
    \/ Startup
    \/ QuakeLoad(MaxRows)
    \/ FinLoad(MaxFinRows)
    \/ CallUpdateCharts(FALSE)
    \/ CallUpdateChart(FALSE, Days, YInput)
    \/ CallUpdateGraph(FALSE)

Spec == Init /\ [][Next]_vars

\* The same scripts with smaller inputs, where any invocation may be kept in
\* memo for comparison with a later one.
NextDet ==
    \/ Startup
    \/ QuakeLoad(DetMaxRows)
    \/ FinLoad(DetMaxRows)
    \/ CallUpdateCharts(TRUE)
    \/ CallUpdateChart(TRUE, {0, 2}, {Some(0), Some(20)})
    \/ CallUpdateGraph(TRUE)

SpecDet == Init /\ [][NextDet]_vars

\* The same scripts served to several sessions at once.
NextConc ==
    \/ Startup
    \/ QuakeLoad(DetMaxRows)
    \/ FinLoad(DetMaxRows)
    \/ \E s \in Sessions : SessBegin(s, {0, 2}, {Some(0), Some(20)})
    \/ \E s \in Sessions : SessFilter(s)
    \/ \E s \in Sessions : SessBuild(s)

SpecConc == Init /\ [][NextConc]_vars

(***************************************************************************)
(* The claims                                                              *)
(***************************************************************************)
QuakeCalled == last.fn = "update_charts" /\ ~IsNone(last.args[1])
FinCalled == last.fn = "update_chart" /\ ~IsNone(last.args[1])

\* The number of rows of a table equal to v.
CountIn(rows, v) == Cardinality({i \in 1..Len(rows) : rows[i] = v})

\* The full extent of the year field, and of the price fields, of a table.
YearExtent(d) == <<MinOf(Years(d.rows)), MaxOf(Years(d.rows))>>
PriceExtent(d) ==
    LET vals == Range(Column(d.rows, "Value")) \cup Range(Column(d.rows, "MA"))
    IN  <<MinOf(vals), MaxOf(vals)>>

\* C1: a callback given a pair min/max with min >= max (the year range of
\* update_charts, y_min/y_max of update_chart) returns the chart it would
\* return with that pair set to the dataset's full extent, and does not
\* apply the pair.  (For the y axis, a chart whose axis range is left to the
\* renderer, which then spans the plotted data, is accepted as well.)
C1_InvalidPairReplacedByFullExtent ==
    /\ (QuakeCalled /\ last.args[1][1] >= last.args[1][2])
         => last.ret = update_charts(df, YearExtent(df)).ret
    /\ (FinCalled /\ ~IsNone(last.args[2]) /\ ~IsNone(last.args[3])
            /\ Val(last.args[2]) >= Val(last.args[3]))
         => /\ last.ret.kind = "return"
            /\ last.ret.value.yaxis_range # <<Val(last.args[2]), Val(last.args[3])>>
            /\ \/ last.ret.value.yaxis_range = None
               \/ last.ret = update_chart(df, tz, last.args[1], Some(PriceExtent(df)[1]),
                                          Some(PriceExtent(df)[2])).ret

\* C2: a callback whose range selects zero rows returns a chart description
\* with zero traces and a non-empty "no data" notice, and does not raise.
C2_ZeroRowsGiveNoDataNotice ==
    /\ (QuakeCalled
            /\ \A i \in 1..Len(df.rows) :
                 ~(last.args[1][1] <= df.rows[i].Year /\ df.rows[i].Year <= last.args[1][2]))
         => /\ last.ret.kind = "return"
            /\ last.ret.value.map.traces = <<>>
            /\ last.ret.value.hist.traces = <<>>
            /\ "notice" \in DOMAIN last.ret.value.stats
            /\ last.ret.value.stats.notice # ""
    /\ (FinCalled
            /\ \A i \in 1..Len(df.rows) :
                 ~(last.start_date <= df.rows[i].Date /\ df.rows[i].Date <= last.end_date))
         => /\ last.ret.kind = "return"
            /\ last.ret.value.traces = <<>>
            /\ "notice" \in DOMAIN last.ret.value
            /\ last.ret.value.notice # ""

\* C3: the derived view of update_charts holds exactly the rows whose Year
\* lies in [lo, hi], and that of update_chart exactly the rows whose Date
\* lies in [start_date, end_date], both bounds included: every row of the
\* table is in the view as often as in the table if it lies in the range,
\* and not at all otherwise, and the view holds nothing else.
C3_FilterInclusive ==
    /\ QuakeCalled
         => /\ \A v \in Range(df.rows) :
                 CountIn(last.view, v) =
                    IF last.args[1][1] <= v.Year /\ v.Year <= last.args[1][2]
                    THEN CountIn(df.rows, v) ELSE 0
            /\ Range(last.view) \subseteq Range(df.rows)
    /\ FinCalled
         => /\ \A v \in Range(df.rows) :
                 CountIn(last.view, v) =
                    IF last.start_date <= v.Date /\ v.Date <= last.end_date
                    THEN CountIn(df.rows, v) ELSE 0
            /\ Range(last.view) \subseteq Range(df.rows)

\* update_charts was given lo < hi over a table with a row at lo, a row at
\* hi and a row outside: the first two are in the view, the third is not.
C3_Witness ==
    /\ QuakeCalled
    /\ last.args[1][1] < last.args[1][2]
    /\ \E v \in Range(last.view) : v.Year = last.args[1][1]
    /\ \E v \in Range(last.view) : v.Year = last.args[1][2]
    /\ \E v \in Range(df.rows) : v \notin Range(last.view)

Called == last.fn # "none"

\* C4: two invocations of a callback with the same arguments, whatever was
\* invoked between them, give the same result: the result of the latest
\* invocation equals that of any earlier invocation with its arguments.
C4_Deterministic ==
    (memo.fn # "none" /\ last.fn = memo.fn /\ last.args = memo.args)
        => last.ret = memo.ret

\* A callback returned for arguments it had been given before, after an
\* invocation with other arguments in between.
C4_Witness ==
    /\ memo.fn = "update_chart"
    /\ memo.between
    /\ last.args = memo.args
    /\ last.ret.kind = "return"
    /\ last.view # <<>>

\* C5: a callback never raises, whatever it is given (a null slider value, a
\* null amplitude, frequency or decay, a reversed range): it returns.
C5_NeverRaises == Called => last.ret.kind = "return"

\* C6: when y_min or y_max is null, update_chart builds the chart with no
\* y-axis range (y_range is None, yaxis_range is unset) and filters by date
\* as it does otherwise: the traces hold the rows of the table whose Date
\* lies in the range given.
C6_NullYBoundMeansDefault ==
    (FinCalled /\ (IsNone(last.args[2]) \/ IsNone(last.args[3])))
        => /\ last.y_range = None
           /\ last.ret.kind = "return"
           /\ last.ret.value.yaxis_range = None
           /\ last.ret.value.traces[5].x =
                Column(SelectSeq(df.rows, LAMBDA r :
                           fromtimestamp(last.args[1][1], tz) <= r.Date
                           /\ r.Date <= fromtimestamp(last.args[1][2], tz)),
                       "Date")

\* update_chart was given a null y_min with a number for y_max and a date
\* range that keeps some rows and drops others.
C6_Witness ==
    /\ FinCalled
    /\ IsNone(last.args[2]) /\ ~IsNone(last.args[3])
    /\ last.view # <<>>
    /\ last.view # df.rows

\* C7: the stats card of update_charts carries the count, the minimum, the
\* maximum and the mean of Magnitude over the filtered rows.
C7_StatsCardHasCountMinMaxMean ==
    (QuakeCalled /\ last.view # <<>>)
        => LET card == last.ret.value.stats
               mags == Magnitudes(last.view)
           IN  /\ {"count", "min", "max", "mean"} \subseteq DOMAIN card
               /\ card.count = Len(last.view)
               /\ card.min = MinOf(Range(mags))
               /\ card.max = MaxOf(Range(mags))
               /\ card.mean = Format2f(SumSeq(mags), Len(mags))

\* C8: a load fails with the NotFound kind exactly when the file is absent,
\* and a file that is there but lacks a field the pipeline uses fails with
\* another kind: it is never a successful load.
C8_LoadErrorKinds ==
    load.done
        => /\ (load.res = "FileNotFoundError") <=> load.absent
           /\ (~load.absent /\ load.missing # {})
                => load.res \notin {"ok", "FileNotFoundError"}

\* C9: a script with a dataset serves only after its load (and cleaning)
\* succeeded; once a load has raised, the failure has been reported and the
\* script is over without serving.
C9_LoadFailureIsFatal ==
    /\ (pc = "serving" /\ script # "sim")
         => load.n >= 1 /\ load.done /\ load.res = "ok"
    /\ (load.res \notin {"none", "ok"})
         => /\ pc = "failed"
            /\ reported # <<>>
            /\ reported[Len(reported)].exc = load.res

\* The earthquake loader raised and the script ended, the failure printed.
C9_Witness ==
    /\ script = "quake"
    /\ load.res = "RuntimeError"
    /\ pc = "failed"
    /\ reported # <<>>

\* C10: while a dashboard serves, whatever callbacks were invoked, the
\* table is the table the dashboard was assembled with.
C10_DatasetUntouched == pc = "serving" => df = assembled

\* update_charts ran while the dashboard served, keeping some rows of the
\* table and dropping others.
C10_Witness ==
    /\ pc = "serving"
    /\ QuakeCalled
    /\ last.ret.kind = "return"
    /\ last.view # <<>>
    /\ Len(last.view) < Len(df.rows)

\* What one invocation of the script's callback on its own gives for the
\* parameters a over the table d.
Recompute(d, a) ==
    IF script = "quake" THEN update_charts(d, a[1]).ret
    ELSE IF script = "fin" THEN update_chart(d, tz, a[1], a[2], a[3]).ret
    ELSE update_graph(a[1], a[2], a[3])

\* C11: whatever the interleaving of the sessions' invocations, the result
\* an invocation returns is the one a solitary invocation with the same
\* parameters gives over the Dataset.
C11_SessionsIndependent ==
    \A s \in Sessions :
        sess[s].pc = "done" => sess[s].ret = Recompute(assembled, sess[s].args)

\* Session 1 returned a chart while session 2, called with other parameters
\* and holding another view, was between its filter and its return.
C11_Witness ==
    /\ sess[1].pc = "done"
    /\ sess[1].ret.kind = "return"
    /\ 2 \in sess[1].during
    /\ sess[2].pc = "filtered"
    /\ sess[2].args # sess[1].args
    /\ sess[2].view # sess[1].view

\* C12: after any sequence of parameter changes, delivered one at a time,
\* the outputs are those of the latest parameter values over the Dataset:
\* the result of the latest invocation is Recompute of its own arguments,
\* whatever the earlier invocations were.
C12_LastWriteWins ==
    Called => last.ret = Recompute(assembled, last.args)

\* update_chart returned after an earlier invocation in which one control,
\* the date slider, had another value, and which gave another chart.
C12_Witness ==
    /\ memo.fn = "update_chart"
    /\ last.fn = "update_chart"
    /\ last.ret.kind = "return"
    /\ memo.ret.kind = "return"
    /\ memo.args[1] # last.args[1]
    /\ memo.args[2] = last.args[2] /\ memo.args[3] = last.args[3]
    /\ memo.ret # last.ret

\* C13: generate_simulation_data gives exactly 500 samples whose x values
\* start at 0, end at 10 and stay within [0, 10], and the samples depend on
\* the triple (amplitude, frequency, decay) only: an earlier invocation with
\* the same triple gave the same sequence, whatever was invoked in between.
C13_SimulationSamples ==
    (last.fn = "update_graph" /\ last.ret.kind = "return")
        => LET tr == last.ret.value.traces[1]
           IN  /\ Len(tr.x) = 500 /\ Len(tr.y) = 500
               /\ tr.x[1][1] = 0
               /\ tr.x[500][1] = 10 * tr.x[500][2]
               /\ \A i \in 1..Len(tr.x) :
                    0 <= tr.x[i][1] /\ tr.x[i][1] <= 10 * tr.x[i][2]
               /\ \A i \in 1..(Len(tr.x) - 1) :
                    tr.x[i][1] * tr.x[i + 1][2] < tr.x[i + 1][1] * tr.x[i][2]
               /\ (memo.fn = "update_graph" /\ memo.args = last.args
                      /\ memo.ret.kind = "return")
                    => (memo.ret.value.traces[1].x = tr.x
                        /\ memo.ret.value.traces[1].y = tr.y)

\* update_graph ran for (5, 10, 0.2), then for another triple, then for
\* (5, 10, 0.2) again.
C13_Witness ==
    /\ memo.fn = "update_graph"
    /\ last.fn = "update_graph"
    /\ memo.between
    /\ memo.args = <<Some(5), Some(10), Some(2)>>
    /\ last.args = memo.args
    /\ last.ret.kind = "return"

\* C14: data errors are filtered out at load time: the table load_and_clean
\* returns for a file with all its columns, and so the table update_charts
\* works on, has a timestamp, a Year and a Magnitude in every row; the table clean_data returns, and so the
\* table update_chart works on, has a Date, a Value and an MA in every row.
C14_DataErrorsFilteredAtLoad ==
    /\ (script = "quake" /\ load.res = "ok" /\ load.missing = {})
         => \A i \in 1..Len(df.rows) :
              /\ df.rows[i].Datetime \in Ticks
              /\ df.rows[i].Year = YearOf(df.rows[i].Datetime)
              /\ df.rows[i].Magnitude # NaN
    /\ (script = "fin" /\ pc \in {"cleaned", "serving"})
         => \A i \in 1..Len(df.rows) :
              /\ df.rows[i].Date \in {DateOf(d) : d \in Days}
              /\ df.rows[i].Value \in Int
              /\ df.rows[i].MA \in Int

\* C15: in each dashboard process the load operation runs exactly once
\* before serving, app.py run as the main script included, and the table is
\* not loaded again or changed afterwards.
C15_LoadedExactlyOnce ==
    (pc = "serving" /\ script # "sim") => (load.n = 1 /\ df = assembled)

\* C16: a failure of ngrok.kill or ngrok.connect is caught and reported and
\* does not end the run: app.py as the main script and the simulation
\* dashboard pass the tunnel step before they serve, and after a failed
\* tunnel the script goes on; it ends only for a failure of a later step.
C16_TunnelFailureNotFatal ==
    /\ (script \in {"sim", "iris_main"} /\ pc = "serving") => tunnel # "untried"
    /\ tunnel = "failed"
         => /\ \E i \in 1..Len(reported) :
                 reported[i] = [handler |-> "Exception", exc |-> "NgrokError"]
            /\ pc = "failed" => reported[Len(reported)].exc # "NgrokError"
            /\ script = "sim" => pc \in {"configured", "serving"}

\* app.py run as the main script serves although its tunnel failed.
C16_Witness ==
    /\ script = "iris_main"
    /\ tunnel = "failed"
    /\ pc = "serving"
    /\ load.res = "ok"

\* C17: when update_chart is given the initial value of the date slider,
\* [min_date.timestamp(), max_date.timestamp()], the dates it converts the
\* two values back to are the table's minimum and maximum Date and its view
\* holds every row of the table, whatever the host's UTC offset.
C17_InitialSliderKeepsEveryRow ==
    (FinCalled /\ last.args[1] = fin_create_app(assembled).value.date_slider)
        => /\ last.start_date = last.args[1][1]
           /\ last.end_date = last.args[1][2]
           /\ last.view = assembled.rows

\* C18: the defaults create_app computes for the y inputs, int(min * 0.9)
\* and int(max * 1.1) over Value and MA, enclose every Value and MA of the
\* table and are in increasing order, so that update_chart accepts them.
C18_DefaultYRangeEnclosesData ==
    (script = "fin" /\ pc = "serving")
        => LET app == fin_create_app(assembled).value
               vals == Range(Column(assembled.rows, "Value"))
                       \cup Range(Column(assembled.rows, "MA"))
           IN  /\ \A v \in vals : app.y_min <= v /\ v <= app.y_max
               /\ app.y_min < app.y_max
               /\ validate_y(Some(app.y_min), Some(app.y_max)) = <<app.y_min, app.y_max>>

RowsBounded(rows) ==
    \A i \in 1..Len(rows) :
        /\ rows[i].Upper_Bound = MaxOf({rows[i].Value, rows[i].MA})
        /\ rows[i].Lower_Bound = MinOf({rows[i].Value, rows[i].MA})
        /\ rows[i].Lower_Bound <= rows[i].MA /\ rows[i].MA <= rows[i].Upper_Bound
        /\ rows[i].Lower_Bound <= rows[i].Value /\ rows[i].Value <= rows[i].Upper_Bound

DateOrdered(rows) ==
    \A i \in 1..(Len(rows) - 1) : rows[i].Date <= rows[i + 1].Date

\* C19: in the table clean_data returns, every row has Upper_Bound =
\* max(Value, MA) and Lower_Bound = min(Value, MA), with Value and MA between
\* them, the rows are in non-decreasing Date order and indexed 0..n-1; every
\* view of update_chart keeps the bound relation and the Date order.
C19_CleanedTableWellFormed ==
    /\ (script = "fin" /\ pc \in {"cleaned", "serving"})
         => /\ RowsBounded(df.rows)
            /\ DateOrdered(df.rows)
            /\ \A i \in 1..Len(df.rows) : df.rows[i].idx = i - 1
    /\ FinCalled => (RowsBounded(last.view) /\ DateOrdered(last.view))

\* update_chart kept two rows of different dates, one with its Value above
\* its MA and one with its Value below.
C19_Witness ==
    /\ FinCalled
    /\ Len(last.view) = 2
    /\ last.view[1].Date < last.view[2].Date
    /\ \E i, j \in 1..2 : last.view[i].Value > last.view[i].MA
                          /\ last.view[j].Value < last.view[j].MA

\* C20: the three outputs of one update_charts invocation come from the
\* same view: either the view is empty and all three are the "no data"
\* outputs, or none is and the count of the stats card is the number of
\* points of the map and of the histogram, which are the rows of the view.
C20_OutputsConsistent ==
    (QuakeCalled /\ last.ret.kind = "return")
        => LET out == last.ret.value
           IN  IF last.view = <<>>
               THEN /\ out.map = EmptyFigure
                    /\ out.hist = EmptyFigure
                    /\ out.stats = [notice |-> NoDataNotice]
               ELSE /\ out.map.traces # <<>>
                    /\ out.hist.traces # <<>>
                    /\ "count" \in DOMAIN out.stats
                    /\ out.stats.count = Len(out.map.traces[1].points)
                    /\ out.stats.count = Len(out.hist.traces[1].x)
                    /\ out.map.traces[1].points = last.view
                    /\ out.hist.traces[1].x = Magnitudes(last.view)

\* update_charts kept two of the three rows of the table and its stats card
\* counts two.
C20_Witness ==
    /\ QuakeCalled
    /\ Len(df.rows) = 3
    /\ Len(last.view) = 2
    /\ last.ret.value.stats.count = 2

\* C21: for a non-empty view, the strongest quake annotated on the map is a
\* row of the view, no row of the view has a greater Magnitude, its
\* Magnitude is the maximum of the stats card, and the year span of the map
\* title lies within the selected year range.
C21_InsightsFromFilteredRows ==
    (QuakeCalled /\ last.ret.kind = "return" /\ last.view # <<>>)
        => LET map == last.ret.value.map
               year_range == last.args[1]
           IN  /\ \E i \in 1..Len(last.view) :
                    /\ last.view[i].Magnitude = map.annotation.Magnitude
                    /\ last.view[i].Year = map.annotation.Year
               /\ \A j \in 1..Len(last.view) :
                    last.view[j].Magnitude <= map.annotation.Magnitude
               /\ map.annotation.Magnitude = last.ret.value.stats.max
               /\ year_range[1] <= map.title[1]
               /\ map.title[1] <= map.title[2]
               /\ map.title[2] <= year_range[2]

\* update_charts kept some rows and left out the strongest quake of the
\* table, in a year outside the selected range.
C21_Witness ==
    /\ QuakeCalled
    /\ last.view # <<>>
    /\ last.ret.value.map.annotation.Magnitude < MaxOf(Range(Magnitudes(df.rows)))
    /\ \E i \in 1..Len(df.rows) : df.rows[i].Year > last.args[1][2]

====
